---- MODULE Spec2Model ----
(***************************************************************************)
(* Model of coherence::lang::class_spec<T, E, I>                           *)
(* (include/public/coherence/lang/class_spec.hpp).                         *)
(*                                                                         *)
(* A program is a set of managed classes declared through class_spec: each *)
(* class T names its parent (extends<P>) and an ordered list of interfaces *)
(* (implements<I1, ...>).  The model draws a class hierarchy in Init and   *)
(* then runs the operations class_spec generates for every class: create,  *)
(* clone, sizeOf, _cast and _getClassId.                                   *)
(*                                                                         *)
(* Classes are numbered: 0 is coherence::lang::Object, 1..NumClasses are   *)
(* the classes declared through class_spec.  Interfaces are named by       *)
(* strings.  A coh_class_id is a number (the address of a type_info).      *)
(***************************************************************************)
EXTENDS Integers, Sequences, FiniteSets, TLC

\* ----- bounds -------------------------------------------------------------

NumClasses == 2

MaxInstances == 2

MaxIfaces == 2

\* ----- program constants --------------------------------------------------

\* "virtual interface inheritance of up to 16 interfaces"
MaxInterfaces == 16

\* ----- the universe of types ----------------------------------------------

Object == 0

Declared == 1..NumClasses

Classes == 0..NumClasses

Interfaces == {"I1", "I2"}

\* the interfaces an interface itself extends: I2 is declared as an
\* interface that extends I1, I1 extends nothing
InterfaceParents(i) == IF i = "I2" THEN {"I1"} ELSE {}

\* the identity token of an interface type
InterfaceId(i) == IF i = "I1" THEN 2 ELSE 4

\* the address of the type_info of class c: distinct types, distinct objects
TypeInfo(c) == 2 * c + 1

\* every coh_class_id a caller may pass: the ids of the classes, of the
\* interfaces, and of types that are not part of the hierarchy at all
Tokens == 1..(2 * NumClasses + 3)

\* the null pointer
NULL == [obj |-> 0, view |-> 0]

\* sequences of distinct interfaces, at most n long
IfaceLists(n) ==
    {s \in UNION {[1..k -> Interfaces] : k \in 0..n} :
        \A a, b \in DOMAIN s : a # b => s[a] # s[b]}

Min(a, b) == IF a < b THEN a ELSE b

\* ----- state --------------------------------------------------------------

VARIABLES
    classId,       \* class -> its identity token (COH_GENERATE_CLASS_ID)
    inheritedOf,   \* declared class -> its parent (E::inherited)
    implementsOf,  \* declared class -> its declared interfaces (I)
    heap,          \* heap[o] is the concrete class of managed instance o
    pc,            \* "idle", "cast", "returned" or "thrown"
    op,            \* the operation in progress or last completed
    self,          \* the instance it was invoked on (0: none)
    arg,           \* its argument: a token, or 1/0 for fDeep
    level,         \* _cast: the class whose _cast frame runs next
    visited,       \* the class_spec levels whose code has run for the call
    result         \* the value returned or the exception thrown

vars == <<classId, inheritedOf, implementsOf, heap, pc, op, self, arg,
          level, visited, result>>

\* ----- what class_spec takes from its template parameters -----------------

\* COH_CLASS_ID(T): the identity token generated for T
COH_CLASS_ID(T) == classId[T]

\* super_spec as it would be if every spec named the universal root as the
\* parent of its specification
super_spec_Root(T) == Object

\* typedef typename E::inherited super_spec
super_spec(T) == inheritedOf[T]

\* typedef typename E::inherited_literal inherited
inherited(T) == inheritedOf[T]

\* the classes whose code is inherited by T, T itself first, Object last
RECURSIVE Chain(_)
Chain(T) == IF T = Object THEN <<Object>> ELSE <<T>> \o Chain(inheritedOf[T])

Range(s) == {s[k] : k \in DOMAIN s}

\* the proper ancestors of T
Ancestors(T) == Range(Chain(T)) \ {T}

\* ----- the interfaces' side of the capability query -----------------------

\* does interface i answer for the token: its own id or, through the
\* interfaces it extends, one of theirs
RECURSIVE InterfaceSupports(_, _)
InterfaceSupports(i, pInfo) ==
    \/ InterfaceId(i) = pInfo
    \/ \E j \in InterfaceParents(i) : InterfaceSupports(j, pInfo)

\* I::implements_chain::_icast(pInfo): ask each declared interface in turn;
\* the first that supports the token yields the pointer to that interface's
\* sub-object of the instance
RECURSIVE _icast(_, _, _)
_icast(o, chain, pInfo) ==
    IF chain = <<>> THEN NULL
    ELSE IF InterfaceSupports(Head(chain), pInfo)
         THEN [obj |-> o, view |-> pInfo]
         ELSE _icast(o, Tail(chain), pInfo)

\* Object::_cast(pInfo): the end of the chain
ObjectCast(o, pInfo) ==
    IF COH_CLASS_ID(Object) = pInfo THEN [obj |-> o, view |-> pInfo] ELSE NULL

\* ----- class_spec<T, E, I>::_cast -----------------------------------------

\* _cast without the comparison of the token with T's own id
_cast_NoSelf(T, o, pInfo) ==
    LET p == _icast(o, implementsOf[T], pInfo)
    IN  [p |-> p, tail |-> (p = NULL)]

\* _cast without the scan of T's directly implemented interfaces
_cast_NoIcast(T, o, pInfo) ==
    LET p == IF COH_CLASS_ID(T) = pInfo
             THEN [obj |-> o, view |-> COH_CLASS_ID(T)]
             ELSE NULL
    IN  [p |-> p, tail |-> (p = NULL)]

\* _cast with the comparison of the token inverted
_cast_Inverted(T, o, pInfo) ==
    LET p == IF COH_CLASS_ID(T) # pInfo
             THEN [obj |-> o, view |-> COH_CLASS_ID(T)]
             ELSE _icast(o, implementsOf[T], pInfo)
    IN  [p |-> p, tail |-> (p = NULL)]

\* _cast that returns p and never asks super_spec
_cast_NoTail(T, o, pInfo) ==
    LET p == IF COH_CLASS_ID(T) = pInfo
             THEN [obj |-> o, view |-> COH_CLASS_ID(T)]
             ELSE _icast(o, implementsOf[T], pInfo)
    IN  [p |-> p, tail |-> FALSE]

\* _cast that asks super_spec whatever p is
_cast_AlwaysTail(T, o, pInfo) ==
    LET p == IF COH_CLASS_ID(T) = pInfo
             THEN [obj |-> o, view |-> COH_CLASS_ID(T)]
             ELSE _icast(o, implementsOf[T], pInfo)
    IN  [p |-> p, tail |-> TRUE]

\* One frame of _cast, run for instance o at level T:
\*   void* p = COH_CLASS_ID(T) == pInfo
\*           ? (void*) static_cast<const T*>(this)
\*           : I::implements_chain::_icast(pInfo);
\*   return p ? p : super_spec::_cast(pInfo);
\* p is the pointer found at this level, tail says that the frame ends in the
\* call of super_spec::_cast.
_cast(T, o, pInfo) ==
    LET p == IF COH_CLASS_ID(T) = pInfo
             THEN [obj |-> o, view |-> COH_CLASS_ID(T)]
             ELSE _icast(o, implementsOf[T], pInfo)
    IN  [p |-> p, tail |-> (p = NULL)]

\* ----- class_spec<T, E, I>::_getClassId -----------------------------------

\* _getClassId that answers with the id of the parent class
_getClassId_Parent(T) == COH_CLASS_ID(inheritedOf[T])

_getClassId(T) == COH_CLASS_ID(T)

\* ----- class_spec<T, E, I>::sizeOf ----------------------------------------

\* the bytes the fields declared by class c itself take
Contribution(c) == 8 * (c + 1)

\* sizeof(T): an object of T holds the sub-objects of all its bases
RECURSIVE Sizeof(_)
Sizeof(T) ==
    IF T = Object THEN Contribution(Object)
    ELSE Sizeof(inheritedOf[T]) + Contribution(T)

\* Object::sizeOf(fDeep): the base footprint of the universal root
ObjectSizeOf(fDeep) == [cb |-> Sizeof(Object), frames |-> <<Object>>]

\* sizeOf in which every level adds the bytes of its own fields to the deep
\* size of its parent
RECURSIVE sizeOf_Additive(_, _)
sizeOf_Additive(T, fDeep) ==
    IF fDeep
    THEN LET up == IF inherited(T) = Object
                   THEN ObjectSizeOf(TRUE)
                   ELSE sizeOf_Additive(inherited(T), TRUE)
         IN  [cb |-> up.cb + Contribution(T), frames |-> <<T>> \o up.frames]
    ELSE [cb |-> Sizeof(T), frames |-> <<T>>]

\* sizeOf whose shallow branch measures the parent class
RECURSIVE sizeOf_ShallowUp(_, _)
sizeOf_ShallowUp(T, fDeep) ==
    IF fDeep
    THEN LET up == IF inherited(T) = Object
                   THEN ObjectSizeOf(TRUE)
                   ELSE sizeOf_ShallowUp(inherited(T), TRUE)
         IN  [cb |-> up.cb, frames |-> <<T>> \o up.frames]
    ELSE [cb |-> Sizeof(inherited(T)), frames |-> <<T>>]

\*   return fDeep ? inherited::sizeOf(/*fDeep*/ true) : sizeof(T);
\* cb is the size returned, frames the classes whose sizeOf ran
RECURSIVE sizeOf(_, _)
sizeOf(T, fDeep) ==
    IF fDeep
    THEN LET up == IF inherited(T) = Object
                   THEN ObjectSizeOf(TRUE)
                   ELSE sizeOf(inherited(T), TRUE)
         IN  [cb |-> up.cb, frames |-> <<T>> \o up.frames]
    ELSE [cb |-> Sizeof(T), frames |-> <<T>>]

\* ----- class_spec<T, E, I>::clone -----------------------------------------

\* coh_throw_clone_not_supported(typeid(T)): raises the clone-not-supported
\* exception that names the type
coh_throw_clone_not_supported(ti) ==
    [raised |-> TRUE, exc |-> "CloneNotSupportedException", class |-> ti]

\* clone that reports typeid of the parent class
clone_NamesParent(T, o) ==
    LET t == coh_throw_clone_not_supported(TypeInfo(inherited(T)))
    IN  IF t.raised
        THEN [thrown |-> TRUE, exc |-> t.exc, class |-> t.class, value |-> NULL]
        ELSE [thrown |-> FALSE, exc |-> "", class |-> 0, value |-> NULL]

\*   coh_throw_clone_not_supported(typeid(T));
\*   return NULL;
clone(T, o) ==
    LET t == coh_throw_clone_not_supported(TypeInfo(T))
    IN  IF t.raised
        THEN [thrown |-> TRUE, exc |-> t.exc, class |-> t.class, value |-> NULL]
        ELSE [thrown |-> FALSE, exc |-> "", class |-> 0, value |-> NULL]

\* ----- class_spec<T, E, I>::create ----------------------------------------

\* factory_spec::create(...) wrapped in a Handle: a handle to the new
\* instance, which is placed at address n
create(T, n) == [obj |-> n, view |-> COH_CLASS_ID(T)]

\* ----- the program ---------------------------------------------------------

\* every acyclic single-inheritance hierarchy: a class is declared after its
\* parent, and Object is the root
Hierarchies == {f \in [Declared -> Classes] : \A c \in Declared : f[c] < c}

Init ==
    /\ classId = [c \in Classes |-> TypeInfo(c)]
    /\ inheritedOf \in Hierarchies
    /\ implementsOf \in [Declared -> IfaceLists(Min(MaxIfaces, MaxInterfaces))]
    /\ heap = <<>>
    /\ pc = "idle"
    /\ op = "none"
    /\ self = 0
    /\ arg = 0
    /\ level = Object
    /\ visited = <<>>
    /\ result = NULL

Instances == 1..Len(heap)

static == <<classId, inheritedOf, implementsOf>>

\* T::create(): a new managed instance of T
Create(T) ==
    /\ pc = "idle"
    /\ Len(heap) < MaxInstances
    /\ heap' = Append(heap, T)
    /\ pc' = "returned"
    /\ op' = "create"
    /\ self' = Len(heap) + 1
    /\ arg' = 0
    /\ result' = create(T, Len(heap) + 1)
    /\ visited' = <<>>
    /\ UNCHANGED <<static, level>>

\* o->_cast(pInfo): the virtual call enters the _cast of o's concrete class
CastCall(o, pInfo) ==
    /\ pc = "idle"
    /\ pc' = "cast"
    /\ op' = "_cast"
    /\ self' = o
    /\ arg' = pInfo
    /\ level' = heap[o]
    /\ visited' = <<>>
    /\ result' = NULL
    /\ UNCHANGED <<static, heap>>

\* the _cast frame of the class at `level` runs: it returns what it found, or
\* tail-calls the _cast of its super_spec
CastLevel ==
    /\ pc = "cast"
    /\ visited' = Append(visited, level)
    /\ IF level = Object
       THEN /\ result' = ObjectCast(self, arg)
            /\ pc' = "returned"
            /\ level' = level
       ELSE LET f == _cast(level, self, arg)
            IN  IF f.tail
                THEN /\ level' = super_spec(level)
                     /\ pc' = "cast"
                     /\ result' = result
                ELSE /\ result' = f.p
                     /\ pc' = "returned"
                     /\ level' = level
    /\ UNCHANGED <<static, heap, op, self, arg>>

\* o->sizeOf(fDeep)
SizeOf(o, fDeep) ==
    /\ pc = "idle"
    /\ LET r == sizeOf(heap[o], fDeep)
       IN  /\ result' = r.cb
           /\ visited' = r.frames
    /\ pc' = "returned"
    /\ op' = "sizeOf"
    /\ self' = o
    /\ arg' = IF fDeep THEN 1 ELSE 0
    /\ UNCHANGED <<static, heap, level>>

\* o->clone()
Clone(o) ==
    /\ pc = "idle"
    /\ LET r == clone(heap[o], o)
       IN  /\ pc' = IF r.thrown THEN "thrown" ELSE "returned"
           /\ result' = IF r.thrown THEN [exc |-> r.exc, class |-> r.class]
                                    ELSE r.value
    /\ op' = "clone"
    /\ self' = o
    /\ arg' = 0
    /\ visited' = <<>>
    /\ UNCHANGED <<static, heap, level>>

\* o->_getClassId()
GetClassId(o) ==
    /\ pc = "idle"
    /\ result' = _getClassId(heap[o])
    /\ pc' = "returned"
    /\ op' = "_getClassId"
    /\ self' = o
    /\ arg' = 0
    /\ visited' = <<>>
    /\ UNCHANGED <<static, heap, level>>

\* the caller takes the outcome of the call and goes on
Resume ==
    /\ pc \in {"returned", "thrown"}
    /\ pc' = "idle"
    /\ op' = "none"
    /\ self' = 0
    /\ arg' = 0
    /\ level' = Object
    /\ visited' = <<>>
    /\ result' = NULL
    /\ UNCHANGED <<static, heap>>

Next ==
    \/ \E T \in Declared : Create(T)
    \/ \E o \in Instances, pInfo \in Tokens : CastCall(o, pInfo)
    \/ CastLevel
    \/ \E o \in Instances, fDeep \in BOOLEAN : SizeOf(o, fDeep)
    \/ \E o \in Instances : Clone(o)
    \/ \E o \in Instances : GetClassId(o)
    \/ Resume

Spec == Init /\ [][Next]_vars

TypeOK ==
    /\ heap \in Seq(Declared) /\ Len(heap) <= MaxInstances
    /\ pc \in {"idle", "cast", "returned", "thrown"}
    /\ op \in {"none", "create", "_cast", "sizeOf", "clone", "_getClassId"}
    /\ self \in 0..MaxInstances
    /\ level \in Classes

\* ----- properties -----------------------------------------------------------

\* the concrete class of the instance the current call runs on
This == heap[self]

CastReturned == pc = "returned" /\ op = "_cast"

\* does level L answer the token by itself: it is L's own id, or one of the
\* interfaces L declares supports it
DeclaresFor(L, pInfo) ==
    /\ L \in Declared
    /\ \E k \in DOMAIN implementsOf[L] : InterfaceSupports(implementsOf[L][k], pInfo)

Answers(L, pInfo) == classId[L] = pInfo \/ DeclaresFor(L, pInfo)

Last(s) == s[Len(s)]

\* C1: _cast with the class's own identity token returns a non-null pointer
\* that is the instance itself viewed as its class, whatever the class
\* declares and inherits.
C1_OwnTokenYieldsSelf ==
    (CastReturned /\ arg = classId[This]) =>
        /\ result # NULL
        /\ result = [obj |-> self, view |-> classId[This]]

C1_Witness ==
    /\ CastReturned
    /\ arg = classId[This]
    /\ implementsOf[This] # <<>>
    /\ inheritedOf[This] # Object
    /\ result.obj = self

\* C2: the interfaces a class declares itself are scanned before the query
\* goes to the parent specification, at every level: a level is left only
\* when none of its own interfaces supports the token, and the query for an
\* interface the concrete class declares is answered by the concrete class's
\* own scan even when the parent declares the same interface.
C2_OwnInterfacesFirst ==
    (op = "_cast" /\ pc \in {"cast", "returned"}) =>
        /\ \A k \in 1..Len(visited) :
              (k < Len(visited) \/ pc = "cast") =>
                  ~DeclaresFor(visited[k], arg)
        /\ (pc = "returned" /\ DeclaresFor(This, arg)) =>
              /\ result = [obj |-> self, view |-> arg]
              /\ visited = <<This>>

C2_Witness ==
    /\ CastReturned
    /\ implementsOf[This] = <<"I1", "I2">>
    /\ inheritedOf[This] # Object
    /\ \E k \in DOMAIN implementsOf[inheritedOf[This]] :
          implementsOf[inheritedOf[This]][k] = "I1"
    /\ arg = InterfaceId("I1")
    /\ visited = <<This>>
    /\ result = [obj |-> self, view |-> InterfaceId("I1")]

\* C3: a token that is neither the id of a class of the chain nor supported
\* by an interface declared anywhere on the chain yields null, as a plain
\* return value: _cast never ends in an exception.
C3_AbsentYieldsNull ==
    /\ op = "_cast" => pc # "thrown"
    /\ (CastReturned /\ \A k \in DOMAIN Chain(This) : ~Answers(Chain(This)[k], arg))
          => result = NULL

C3_Witness ==
    /\ CastReturned
    /\ result = NULL
    /\ visited = Chain(This)
    /\ Len(visited) = 3
    /\ implementsOf[This] = <<"I1">>
    /\ arg = InterfaceId("I2")

\* C4: the identity token of any proper ancestor of the instance's class, at
\* any depth, yields a non-null pointer.
C4_AncestorTokenNonNull ==
    (CastReturned /\ \E A \in Ancestors(This) : arg = classId[A]) =>
        /\ result # NULL
        /\ result = [obj |-> self, view |-> arg]

C4_Witness ==
    /\ CastReturned
    /\ inheritedOf[This] # Object
    /\ arg = classId[inheritedOf[This]]
    /\ visited = <<This, inheritedOf[This]>>
    /\ result # NULL

SizeOfReturned == pc = "returned" /\ op = "sizeOf"

\* the sum of the contributions of the levels of a chain
RECURSIVE SumOfContributions(_)
SumOfContributions(chain) ==
    IF chain = <<>> THEN 0
    ELSE Contribution(Head(chain)) + SumOfContributions(Tail(chain))

\* C5 (as claimed): sizeOf(true) returns the sum of the incremental
\* contributions of every level of the hierarchy of the instance (48 for
\* root 8, middle 16, leaf 24).
C5_DeepIsSumOfLevels ==
    (SizeOfReturned /\ arg = 1) => result = SumOfContributions(Chain(This))

\* C5 (as amended): sizeOf(true) runs the deep-size query of every level of
\* the chain up to the root, no class_spec level adds anything, and the
\* value returned is the one the root's deep-size query returns.
C5_DeepIsRootDeepSize ==
    (SizeOfReturned /\ arg = 1) =>
        /\ visited = Chain(This)
        /\ result = ObjectSizeOf(TRUE).cb

C5_Witness ==
    /\ SizeOfReturned
    /\ arg = 1
    /\ Chain(This) = <<2, 1, Object>>
    /\ SumOfContributions(Chain(This)) = 48
    /\ result = 8

\* C6: sizeOf(false) returns the shallow footprint of the concrete class of
\* the instance and runs no sizeOf but that of the concrete class.
C6_ShallowIsSizeofT ==
    (SizeOfReturned /\ arg = 0) =>
        /\ result = Sizeof(This)
        /\ visited = <<This>>

C6_Witness ==
    /\ SizeOfReturned
    /\ arg = 0
    /\ inheritedOf[This] # Object
    /\ result = Sizeof(This)
    /\ result # Sizeof(inheritedOf[This])

\* C7: clone() on an instance always ends in the clone-not-supported
\* exception naming the concrete class of the instance; nothing is returned
\* and no instance is created or changed.
C7_CloneAlwaysThrows ==
    [][(pc = "idle" /\ op' = "clone") =>
          /\ pc' = "thrown"
          /\ result' = [exc |-> "CloneNotSupportedException",
                        class |-> TypeInfo(heap[self'])]
          /\ heap' = heap]_vars

C7_Witness ==
    /\ op = "clone"
    /\ pc = "thrown"
    /\ Len(heap) = 2
    /\ inheritedOf[This] # Object
    /\ result.class = TypeInfo(This)

\* C8: distinct classes have distinct identity tokens, _getClassId() on an
\* instance returns the token of its concrete class whatever ran before, and
\* no operation changes a token.
C8_TokenState ==
    /\ \A c1, c2 \in Classes : c1 # c2 => classId[c1] # classId[c2]
    /\ \A o1, o2 \in Instances :
          (_getClassId(heap[o1]) = _getClassId(heap[o2])) <=> (heap[o1] = heap[o2])
    /\ (pc = "returned" /\ op = "_getClassId") => result = classId[This]

C8_TokenIsInjectiveAndStable ==
    []C8_TokenState /\ [][classId' = classId]_vars

C8_Witness ==
    /\ pc = "returned"
    /\ op = "_getClassId"
    /\ Len(heap) = 2
    /\ heap[1] = heap[2]
    /\ self = 2
    /\ inheritedOf[This] # Object
    /\ result = classId[This]

\* C9: an interface declared by an ancestor of the class and not by the
\* class itself is answered with a non-null pointer into the instance.
C9_InheritedInterfaces ==
    (CastReturned /\ \E A \in Ancestors(This) \cap Declared :
                        \E k \in DOMAIN implementsOf[A] :
                            /\ arg = InterfaceId(implementsOf[A][k])
                            /\ implementsOf[A][k] \notin Range(implementsOf[This]))
        => /\ result # NULL
           /\ result = [obj |-> self, view |-> arg]

C9_Witness ==
    /\ CastReturned
    /\ inheritedOf[This] # Object
    /\ implementsOf[This] = <<>>
    /\ implementsOf[inheritedOf[This]] = <<"I2">>
    /\ arg = InterfaceId("I2")
    /\ visited = <<This, inheritedOf[This]>>
    /\ result = [obj |-> self, view |-> arg]

\* C10: a _cast call visits the levels of the chain in order from the
\* concrete class towards the root, each at most once, every step that does
\* not return moves to a class strictly nearer the root, the call returns at
\* the first level that answers the token and otherwise at the root with
\* null.
C10_VisitsInOrder ==
    (op = "_cast" /\ pc \in {"cast", "returned"}) =>
        /\ Len(visited) <= Len(Chain(This))
        /\ visited = SubSeq(Chain(This), 1, Len(visited))
        /\ pc = "cast" =>
              /\ Len(visited) < Len(Chain(This))
              /\ level = Chain(This)[Len(visited) + 1]
        /\ pc = "returned" =>
              /\ Len(visited) >= 1
              /\ \A k \in 1..(Len(visited) - 1) : ~Answers(visited[k], arg)
              /\ result # NULL => Answers(Last(visited), arg)
              /\ result = NULL =>
                    /\ visited = Chain(This)
                    /\ ~Answers(Last(visited), arg)

C10_StepsTowardsRoot ==
    (pc = "cast") =>
        \/ pc' = "returned"
        \/ pc' = "cast" /\ Len(Chain(level')) < Len(Chain(level))

C10_CastTerminates ==
    /\ []C10_VisitsInOrder
    /\ [][C10_StepsTowardsRoot]_vars
    /\ (pc = "cast") ~> (pc = "returned")

C10_Witness ==
    /\ CastReturned
    /\ visited = <<This, inheritedOf[This]>>
    /\ Len(Chain(This)) = 3
    /\ result # NULL
    /\ DeclaresFor(inheritedOf[This], arg)

\* the frames of a _cast call that has been entered are run
LiveSpec == Spec /\ WF_vars(CastLevel)

====
